---- MODULE Spec2Model ----
(***************************************************************************)
(* Model of the container registry proxy (src/main.go): the chi router set  *)
(* up by NewProxy, the Catalog handler (fan-out of ListPackages over the    *)
(* identities of GitHubUsers), the TagsList handler and the request-scoped  *)
(* deadline installed by middleware.Timeout.  Spec runs the proxy against   *)
(* the GitHub API, whose calls may return anything; SpecStub runs it        *)
(* against a stub client with one fixed ListPackages answer per identity.   *)
(*                                                                         *)
(* Strings whose characters matter (paths, names, logins, GITHUB_USERS) are *)
(* sequences of one-character strings; error texts and messages are TLA+    *)
(* strings joined with \o.  A Go pointer is a sequence of length 0 (nil) or *)
(* 1 (the value pointed to).                                                *)
(***************************************************************************)
EXTENDS Integers, Sequences, FiniteSets, TLC

VARIABLES
    config,     \* value of the GITHUB_USERS environment variable
    stub,       \* the GitHubClient behind p.ghClient: LiveOrigin, or the table
                \* of a stub client with one fixed ListPackages answer per identity
    pc,         \* position of the request worker
    method,     \* method of the request being served
    path,       \* URL path of the request being served
    handler,    \* what the router dispatched the request to
    owner,      \* chi.URLParam(r, "owner")
    name,       \* chi.URLParam(r, "name")
    expired,    \* the request context's deadline has passed
    users,      \* Catalog: users
    idx,        \* Catalog: position of the range loop over users (1-based)
    remaining,  \* Catalog: records of tempPackages not yet ranged over
    newPackages,\* Catalog: newPackages, declared in the body of the loop over
                \* users: 0 outside an iteration
    successes,  \* Catalog: successes
    packages,   \* Catalog: packages
    errors,     \* Catalog: errors.Errors
    versions,   \* TagsList: versions returned by PackageGetAllVersions
    calls,      \* origin-API calls started while serving this request
    inflight,   \* number of origin-API calls started and not yet returned
    results,    \* history: what each returned origin-API call returned, "ok" or
                \* its error text, in call order
    atExpiry,   \* history: where the request was when its deadline passed
    reobserved, \* history: a returned record was in packages already when
                \* its identity was queried
    w,          \* the http.ResponseWriter of the request
    client      \* what the client has received for the request

vars == <<config, stub, pc, method, path, handler, owner, name, expired, users, idx,
          newPackages, remaining, successes, packages, errors, versions, calls, inflight,
          results, atExpiry, reobserved, w, client>>

-----------------------------------------------------------------------------
(* Bounds of the model *)

MaxCfgLen == 1      \* characters in GITHUB_USERS
MaxPkgs == 1        \* records in one ListPackages result
MaxVersions == 2    \* versions in one PackageGetAllVersions result
MaxTags == 2        \* tags in one version's container metadata
MaxStubPkgs == 2    \* records in one ListPackages answer of a stub client

-----------------------------------------------------------------------------
(* Program constants *)

StatusOK == 200
StatusBadRequest == 400
StatusMethodNotAllowed == 405
StatusGatewayTimeout == 504

ERROR_UNKNOWN == "UNKNOWN"
packageType == "container"
ContentTypeJSON == "application/json"

-----------------------------------------------------------------------------
(* Strings *)

RECURSIVE SeqsUpTo(_, _)
SeqsUpTo(S, n) ==
    IF n = 0 THEN {<<>>}
    ELSE LET shorter == SeqsUpTo(S, n - 1)
         IN  shorter \cup {Append(s, x) : s \in {t \in shorter : Len(t) = n - 1}, x \in S}

\* strings.Split(s, sep) for a one-character separator: the pieces between
\* the separators, so n separators give n + 1 pieces and "" gives [""].
RECURSIVE Split(_, _)
Split(s, sep) ==
    IF s = <<>> THEN <<<<>>>>
    ELSE LET rest == Split(Tail(s), sep)
         IN  IF Head(s) = sep THEN <<<<>>>> \o rest
             ELSE <<<<Head(s)>> \o Head(rest)>> \o Tail(rest)

\* a format string that lost its separator
SprintfNoSlash(a, b) == a \o b

\* fmt.Sprintf("%s/%s", a, b)
SprintfSlash(a, b) == a \o <<"/">> \o b

\* fmt.Sprintf("ListPackages: %s", err)
ListPackagesMessage(err) == "ListPackages: " \o err

\* fmt.Sprintf("PackageGetAllVersions: %s", err)
PackageGetAllVersionsMessage(err) == "PackageGetAllVersions: " \o err

-----------------------------------------------------------------------------
(* Inputs: requests, configuration, origin-API results *)

Methods == {"GET", "HEAD", "POST"}

SegV2 == <<"v", "2">>
SegCatalog == <<"_", "c", "a", "t", "a", "l", "o", "g">>
SegTags == <<"t", "a", "g", "s">>
SegList == <<"l", "i", "s", "t">>
SegManifests == <<"m", "a", "n", "i", "f", "e", "s", "t", "s">>
SegLatest == <<"l", "a", "t", "e", "s", "t">>

\* "/" seg1 "/" seg2 ...
RECURSIVE JoinPath(_)
JoinPath(segs) ==
    IF segs = <<>> THEN <<>>
    ELSE <<"/">> \o Head(segs) \o JoinPath(Tail(segs))

PathParams == {<<"u">>, <<"p">>}

CatalogPath == JoinPath(<<SegV2, SegCatalog>>)
TagsPath(o, n) == JoinPath(<<SegV2, o, n, SegTags, SegList>>)
ManifestPath(o, n) == JoinPath(<<SegV2, o, n, SegManifests, SegLatest>>)

Paths ==
    {CatalogPath, JoinPath(<<SegV2>>)}
    \cup {TagsPath(o, n) : o \in PathParams, n \in PathParams}
    \cup {ManifestPath(o, n) : o \in PathParams, n \in PathParams}

\* values of GITHUB_USERS
Configs == SeqsUpTo({"a", ","}, MaxCfgLen)

\* error texts of a failed origin-API call
ErrTexts == {"boom", "denied"}
\* ctx.Err().Error() of a context whose deadline has passed
DeadlineErr == "context deadline exceeded"

Nil == <<>>
Ptr(v) == <<v>>
Deref(p) == p[1]

LoginStrs == {<<"x">>, <<"x", "/", "x">>}
NameStrs == {<<>>, <<"x">>, <<"x", "/", "x">>}

\* github.Package: Name *string, Owner *User; github.User: Login *string
PackageRecords ==
    [Name : {Nil} \cup {Ptr(s) : s \in NameStrs},
     Owner : {Nil} \cup {Ptr([Login |-> l]) : l \in {Nil} \cup {Ptr(s) : s \in LoginStrs}}]

\* the GitHub API itself: a call may return any result
LiveOrigin == <<>>

\* records a stub client returns: two packages of one owner, a record
\* without owner login and a record without owner
StubRecords ==
    {[Name |-> Ptr(<<"x">>), Owner |-> Ptr([Login |-> Ptr(<<"x">>)])],
     [Name |-> Ptr(<<"x", "/", "x">>), Owner |-> Ptr([Login |-> Ptr(<<"x">>)])],
     [Name |-> Ptr(<<"x">>), Owner |-> Ptr([Login |-> Nil])],
     [Name |-> Ptr(<<"x">>), Owner |-> Nil]}

\* the fixed answer of a stub client to ListPackages for one identity: an
\* error (result is its text) or a listing (result is "ok")
StubAnswers ==
    {[result |-> "boom", tempPackages |-> <<>>]}
    \cup {[result |-> "ok", tempPackages |-> t] : t \in SeqsUpTo(StubRecords, MaxStubPkgs)}

TagStrs == {"latest", "v1"}

\* github.PackageVersion: Metadata *PackageMetadata; PackageMetadata:
\* Container *PackageContainerMetadata; PackageContainerMetadata: Tags []string
VersionRecords ==
    [Metadata : {Nil} \cup {Ptr([Container |-> c]) :
                    c \in {Nil} \cup {Ptr([Tags |-> t]) : t \in SeqsUpTo(TagStrs, MaxTags)}}]

VersionLists == SeqsUpTo(VersionRecords, MaxVersions)

-----------------------------------------------------------------------------
(* The response writer and the client *)

NewResponseWriter == [header |-> "", status |-> 0, sentType |-> "", body |-> <<>>]

\* a handler that never sets the header
SetContentTypeDropped(rw, v) == rw

\* w.Header().Set("Content-Type", v): headers set after the status line was
\* written are not sent
SetContentType(rw, v) == [rw EXCEPT !.header = v]

\* w.WriteHeader(code): the first call fixes the status and the headers sent,
\* a later call is superfluous and changes nothing
WriteHeader(rw, code) ==
    IF rw.status # 0 THEN rw
    ELSE [rw EXCEPT !.status = code, !.sentType = rw.header]

\* json.NewEncoder(w).Encode(doc): the first Write sends status 200 when no
\* status was written
Encode(rw, doc) ==
    LET started == WriteHeader(rw, StatusOK)
    IN  [started EXCEPT !.body = Append(started.body, doc)]

NoResponse == [kind |-> "none", status |-> 0, contentType |-> "", body |-> <<>>]
Forwarded == [kind |-> "forwarded", status |-> 0, contentType |-> "", body |-> <<>>]
Aborted == [kind |-> "aborted", status |-> 0, contentType |-> "", body |-> <<>>]

\* middleware.Timeout's deferred function, then the server sends the response:
\* once the deadline has passed it calls WriteHeader(504), which is
\* superfluous when the handler has written its status already
Finish(rw, isExpired) ==
    LET final == IF isExpired THEN WriteHeader(rw, StatusGatewayTimeout) ELSE rw
    IN  [kind |-> "response", status |-> final.status,
         contentType |-> final.sentType, body |-> final.body]

\* apiError{Code: code, Message: message}
apiError(code, message) == [code |-> code, message |-> message]
\* makeError(code, message): an apiErrors with that single entry
makeError(code, message) == [errors |-> <<apiError(code, message)>>]

-----------------------------------------------------------------------------
(* NewProxy: the router *)

\* router.Get registers the two patterns for GET only; chi answers a matched
\* path with an unregistered method through its MethodNotAllowed handler and
\* calls the NotFound handler only when no pattern matches the path.
MatchesCatalog(p) == Split(p, "/") = <<<<>>, SegV2, SegCatalog>>
MatchesTags(p) ==
    LET segs == Split(p, "/")
    IN  /\ Len(segs) = 6
        /\ segs[1] = <<>>
        /\ segs[2] = SegV2
        /\ segs[5] = SegTags
        /\ segs[6] = SegList

Route(m, p) ==
    IF MatchesCatalog(p) THEN (IF m = "GET" THEN "Catalog" ELSE "MethodNotAllowed")
    ELSE IF MatchesTags(p) THEN (IF m = "GET" THEN "TagsList" ELSE "MethodNotAllowed")
    ELSE "NotFound"

\* chi.URLParam(r, key) for the tags pattern
URLParam(p, key) ==
    LET segs == Split(p, "/")
    IN  IF key = "owner" THEN segs[3] ELSE segs[4]

\* GitHubUsers()
GitHubUsers(env) ==
    LET split == Split(env, ",")
    IN  IF env # <<>> THEN <<<<>>>> \o split ELSE split

-----------------------------------------------------------------------------
(* State machine *)

NotExpired == [calls |-> 0, iterating |-> FALSE]

\* the worker is free: nothing of an earlier request is left
Idle ==
    /\ pc = "idle"
    /\ method = "GET"
    /\ path = <<>>
    /\ handler = "none"
    /\ owner = <<>>
    /\ name = <<>>
    /\ expired = FALSE
    /\ users = <<>>
    /\ idx = 1
    /\ remaining = 0
    /\ newPackages = 0
    /\ successes = 0
    /\ packages = <<>>
    /\ errors = <<>>
    /\ versions = <<>>
    /\ calls = <<>>
    /\ inflight = 0
    /\ results = <<>>
    /\ atExpiry = NotExpired
    /\ reobserved = FALSE
    /\ w = NewResponseWriter
    /\ client = NoResponse

Init ==
    /\ config \in Configs
    /\ stub = LiveOrigin
    /\ Idle

\* A worker takes a request: the router dispatches it and middleware.Timeout
\* attaches a context whose deadline has not passed.
Accept(m, p, h) ==
    /\ pc = "idle"
    /\ Route(m, p) = h
    /\ method' = m
    /\ path' = p
    /\ handler' = h
    /\ UNCHANGED <<config, stub, expired, idx, remaining, successes, packages, errors,
                   versions,
                   results, atExpiry, reobserved, newPackages>>

\* The NotFound handler: upstreamProxy.ServeHTTP(w, r)
NotFound ==
    \E m \in Methods, p \in Paths :
        /\ Accept(m, p, "NotFound")
        /\ client' = Forwarded
        /\ pc' = "done"
        /\ UNCHANGED <<owner, name, users, calls, inflight, w,
                   results, atExpiry, reobserved, newPackages>>

\* chi's MethodNotAllowed handler: the router answers 405 itself
MethodNotAllowed ==
    \E m \in Methods, p \in Paths :
        /\ Accept(m, p, "MethodNotAllowed")
        /\ w' = WriteHeader(w, StatusMethodNotAllowed)
        /\ client' = Finish(w', FALSE)
        /\ pc' = "done"
        /\ UNCHANGED <<owner, name, users, calls, inflight,
                   results, atExpiry, reobserved, newPackages>>

ListPackagesCall(user) ==
    [op |-> "ListPackages", user |-> user, packageType |-> packageType, name |-> <<>>]
PackageGetAllVersionsCall(o, n) ==
    [op |-> "PackageGetAllVersions", user |-> o, packageType |-> packageType, name |-> n]

\* Catalog, up to the range loop
CatalogStart ==
    \E m \in Methods, p \in Paths :
        /\ Accept(m, p, "Catalog")
        /\ users' = GitHubUsers(config)
        /\ w' = SetContentType(w, ContentTypeJSON)
        /\ pc' = "loop"
        /\ UNCHANGED <<owner, name, calls, inflight, client,
                   results, atExpiry, reobserved, newPackages>>

\* the call started without waiting for its result: the loop goes on to the
\* next identity at once
CallListPackagesNoWait ==
    /\ pc = "loop"
    /\ idx <= Len(users)
    /\ calls' = Append(calls, ListPackagesCall(users[idx]))
    /\ inflight' = inflight + 1
    /\ newPackages' = 0
    /\ idx' = idx + 1
    /\ pc' = "loop"
    /\ UNCHANGED <<config, stub, method, path, handler, owner, name, expired, users,
                   remaining, successes, packages, errors, versions, w, client,
                   results, atExpiry, reobserved>>

\* p.ghClient.ListPackages(r.Context(), user, opts) is called
CallListPackages ==
    /\ pc = "loop"
    /\ idx <= Len(users)
    /\ calls' = Append(calls, ListPackagesCall(users[idx]))
    /\ inflight' = inflight + 1
    /\ newPackages' = 0
    /\ pc' = "listing"
    /\ UNCHANGED <<config, stub, method, path, handler, owner, name, expired, users, idx,
                   remaining, successes, packages, errors, versions, w, client,
                   results, atExpiry, reobserved>>

\* the next iteration of the range loop over users
NextUser(i) == i + 1

\* ListPackages returns an error; after the deadline the client library
\* returns the context's error
ListPackagesReturnsError(err) ==
    /\ pc = "listing"
    /\ errors' = Append(errors, apiError(ERROR_UNKNOWN, ListPackagesMessage(err)))
    /\ results' = Append(results, err)
    /\ inflight' = inflight - 1
    /\ idx' = NextUser(idx)
    /\ pc' = "loop"
    /\ UNCHANGED <<config, stub, method, path, handler, owner, name, expired, users,
                   remaining, successes, packages, versions, calls, w, client,
                   atExpiry, reobserved, newPackages>>

ListPackagesFails ==
    \E err \in (IF expired THEN {DeadlineErr} ELSE ErrTexts) :
        ListPackagesReturnsError(err)

\* ListPackages returns n records; they are ranged over one at a time
ListPackagesReturns(n) ==
    /\ pc = "listing"
    /\ remaining' = n
    /\ idx' = IF n = 0 THEN NextUser(idx) ELSE idx
    /\ pc' = IF n = 0 THEN "loop" ELSE "scan"
    /\ successes' = successes + 1
    /\ results' = Append(results, "ok")
    /\ inflight' = inflight - 1
    /\ UNCHANGED <<config, stub, method, path, handler, owner, name, expired, users,
                   packages, errors, versions, calls, w, client,
                   atExpiry, reobserved, newPackages>>

\* the origin API answers before the deadline
ListPackagesSucceeds ==
    /\ ~expired
    /\ \E n \in 0..MaxPkgs : ListPackagesReturns(n)

\* tempPack.Name == nil || tempPack.Owner.Login == nil, evaluated left to
\* right: "panic" when it dereferences a nil Owner
SkipCheck(rec) ==
    IF rec.Name = Nil THEN "skip"
    ELSE IF rec.Owner = Nil THEN "panic"
    ELSE IF Deref(rec.Owner).Login = Nil THEN "skip"
    ELSE "keep"

\* the linear scan of packages for tempPack
Found(pkgs, rec) ==
    \E i \in 1..Len(pkgs) :
        /\ Deref(rec.Name) = Deref(pkgs[i].Name)
        /\ Deref(Deref(rec.Owner).Login) = Deref(Deref(pkgs[i].Owner).Login)

\* the loop body without the scan for an equal package
AddPackageNoScan(pkgs, rec) ==
    IF SkipCheck(rec) = "skip" THEN pkgs ELSE Append(pkgs, rec)

\* the loop body moving a package seen again to the end of packages
AddPackageMoveToEnd(pkgs, rec) ==
    IF SkipCheck(rec) = "skip" THEN pkgs
    ELSE Append(SelectSeq(pkgs, LAMBDA p : ~Found(<<p>>, rec)), rec)

\* one iteration of the range loop over tempPackages
AddPackage(pkgs, rec) ==
    IF SkipCheck(rec) = "skip" THEN pkgs
    ELSE IF Found(pkgs, rec) THEN pkgs
    ELSE Append(pkgs, rec)

\* the body of the range loop over tempPackages for the record tempPack
ScanPackageRec(rec) ==
    /\ pc = "scan"
    /\ SkipCheck(rec) # "panic"
    /\ packages' = AddPackage(packages, rec)
    /\ newPackages' = IF remaining = 1 THEN 0
                      ELSE newPackages + (Len(packages') - Len(packages))
    /\ reobserved' =
          (reobserved \/ (SkipCheck(rec) = "keep" /\
              Found(SubSeq(packages, 1, Len(packages) - newPackages), rec)))
    /\ remaining' = remaining - 1
    /\ idx' = IF remaining = 1 THEN NextUser(idx) ELSE idx
    /\ pc' = IF remaining = 1 THEN "loop" ELSE "scan"
    /\ UNCHANGED <<config, stub, method, path, handler, owner, name, expired, users,
                   successes, errors, versions, calls, inflight, w, client,
                   results, atExpiry>>

ScanPackage == \E rec \in PackageRecords : ScanPackageRec(rec)

\* the handler panics on a nil pointer: the deferred function of
\* middleware.Timeout runs, net/http recovers, logs and closes the connection
\* without sending the response
ScanPanicsOn(rec) ==
    /\ pc = "scan"
    /\ SkipCheck(rec) = "panic"
    /\ w' = IF expired THEN WriteHeader(w, StatusGatewayTimeout) ELSE w
    /\ client' = Aborted
    /\ pc' = "done"
    /\ UNCHANGED <<config, stub, method, path, handler, owner, name, expired, users, idx,
                   remaining, successes, packages, errors, versions, calls, inflight,
                   results, atExpiry, reobserved, newPackages>>

ScanPanics == \E rec \in PackageRecords : ScanPanicsOn(rec)

\* the repositories of the catalog body
RECURSIVE Repositories(_)
Repositories(pkgs) ==
    IF pkgs = <<>> THEN <<>>
    ELSE LET pack == Head(pkgs)
         IN  IF pack.Name = Nil \/ Deref(pack.Owner).Login = Nil
             THEN Repositories(Tail(pkgs))
             ELSE <<SprintfSlash(Deref(Deref(pack.Owner).Login), Deref(pack.Name))>>
                  \o Repositories(Tail(pkgs))

\* the error branch reporting the first error only
CatalogResponseFirstError(succ, errs, pkgs, rw) ==
    IF succ = 0
    THEN Encode(WriteHeader(rw, StatusBadRequest), [errors |-> SubSeq(errs, 1, 1)])
    ELSE Encode(rw, [repositories |-> Repositories(pkgs)])

\* Catalog after the loop: the response
CatalogResponse(succ, errs, pkgs, rw) ==
    IF succ = 0
    THEN Encode(WriteHeader(rw, StatusBadRequest), [errors |-> errs])
    ELSE Encode(rw, [repositories |-> Repositories(pkgs)])

CatalogRespond ==
    /\ pc = "loop"
    /\ idx > Len(users)
    /\ w' = CatalogResponse(successes, errors, packages, w)
    /\ client' = Finish(w', expired)
    /\ pc' = "done"
    /\ UNCHANGED <<config, stub, method, path, handler, owner, name, expired, users, idx,
                   remaining, successes, packages, errors, versions, calls, inflight,
                   results, atExpiry, reobserved, newPackages>>

\* TagsList up to the call of PackageGetAllVersions
TagsListStart ==
    \E m \in Methods, p \in Paths :
        /\ Accept(m, p, "TagsList")
        /\ owner' = URLParam(p, "owner")
        /\ name' = URLParam(p, "name")
        /\ calls' = Append(calls, PackageGetAllVersionsCall(owner', name'))
        /\ inflight' = inflight + 1
        /\ w' = SetContentType(w, ContentTypeJSON)
        /\ pc' = "versions"
        /\ UNCHANGED <<users, client,
                   results, atExpiry, reobserved, newPackages>>

\* the loop putting each version's tags in front of the tags collected so far
RECURSIVE TagsOfNewestFirst(_)
TagsOfNewestFirst(vs) ==
    IF vs = <<>> THEN <<>>
    ELSE LET version == Head(vs)
         IN  IF version.Metadata = Nil \/ Deref(version.Metadata).Container = Nil
             THEN TagsOfNewestFirst(Tail(vs))
             ELSE TagsOfNewestFirst(Tail(vs)) \o Deref(Deref(version.Metadata).Container).Tags

\* the tags of the versions that carry container metadata
RECURSIVE TagsOf(_)
TagsOf(vs) ==
    IF vs = <<>> THEN <<>>
    ELSE LET version == Head(vs)
         IN  IF version.Metadata = Nil \/ Deref(version.Metadata).Container = Nil
             THEN TagsOf(Tail(vs))
             ELSE Deref(Deref(version.Metadata).Container).Tags \o TagsOf(Tail(vs))

\* the error branch without its WriteHeader call
TagsErrorResponseNoStatus(rw, err) ==
    Encode(rw, makeError(ERROR_UNKNOWN, PackageGetAllVersionsMessage(err)))

\* TagsList when PackageGetAllVersions fails
TagsErrorResponse(rw, err) ==
    Encode(WriteHeader(rw, StatusBadRequest),
           makeError(ERROR_UNKNOWN, PackageGetAllVersionsMessage(err)))

\* the success branch naming the package name before the owner
TagsResponseNameFirst(rw, o, n, vs) ==
    Encode(rw, [name |-> SprintfSlash(n, o), tags |-> TagsOf(vs)])

\* TagsList when PackageGetAllVersions succeeds
TagsResponse(rw, o, n, vs) ==
    Encode(rw, [name |-> SprintfSlash(o, n), tags |-> TagsOf(vs)])

PackageGetAllVersionsFails ==
    /\ pc = "versions"
    /\ \E err \in (IF expired THEN {DeadlineErr} ELSE ErrTexts) :
          /\ w' = TagsErrorResponse(w, err)
          /\ results' = Append(results, err)
    /\ inflight' = inflight - 1
    /\ client' = Finish(w', expired)
    /\ pc' = "done"
    /\ UNCHANGED <<config, stub, method, path, handler, owner, name, expired, users, idx,
                   remaining, successes, packages, errors, versions, calls,
                   atExpiry, reobserved, newPackages>>

PackageGetAllVersionsSucceeds ==
    /\ pc = "versions"
    /\ ~expired
    /\ \E vs \in VersionLists :
          /\ versions' = vs
          /\ w' = TagsResponse(w, owner, name, vs)
    /\ results' = Append(results, "ok")
    /\ inflight' = inflight - 1
    /\ client' = Finish(w', expired)
    /\ pc' = "done"
    /\ UNCHANGED <<config, stub, method, path, handler, owner, name, expired, users, idx,
                   remaining, successes, packages, errors, calls,
                   atExpiry, reobserved, newPackages>>

\* the 30 second deadline of the request context passes
Expire ==
    /\ pc \in {"loop", "listing", "scan", "versions"}
    /\ ~expired
    /\ expired' = TRUE
    /\ atExpiry' = [calls |-> Len(calls), iterating |-> idx <= Len(users)]
    /\ UNCHANGED <<config, stub, pc, method, path, handler, owner, name, users, idx,
                   remaining, successes, packages, errors, versions, calls, inflight,
                   w, client,
                   results, reobserved, newPackages>>

\* a worker that keeps the errors of the request it served
CloseKeepingErrors ==
    /\ pc = "done"
    /\ pc' = "idle"
    /\ method' = "GET"
    /\ path' = <<>>
    /\ handler' = "none"
    /\ owner' = <<>>
    /\ name' = <<>>
    /\ expired' = FALSE
    /\ users' = <<>>
    /\ idx' = 1
    /\ remaining' = 0
    /\ newPackages' = 0
    /\ successes' = 0
    /\ packages' = <<>>
    /\ errors' = errors
    /\ versions' = <<>>
    /\ calls' = <<>>
    /\ inflight' = 0
    /\ results' = <<>>
    /\ atExpiry' = NotExpired
    /\ reobserved' = FALSE
    /\ w' = NewResponseWriter
    /\ client' = NoResponse
    /\ UNCHANGED <<config, stub>>

\* The response is written and the worker is free again: everything that
\* was built for the request is discarded.
Close ==
    /\ pc = "done"
    /\ pc' = "idle"
    /\ method' = "GET"
    /\ path' = <<>>
    /\ handler' = "none"
    /\ owner' = <<>>
    /\ name' = <<>>
    /\ expired' = FALSE
    /\ users' = <<>>
    /\ idx' = 1
    /\ remaining' = 0
    /\ newPackages' = 0
    /\ successes' = 0
    /\ packages' = <<>>
    /\ errors' = <<>>
    /\ versions' = <<>>
    /\ calls' = <<>>
    /\ inflight' = 0
    /\ results' = <<>>
    /\ atExpiry' = NotExpired
    /\ reobserved' = FALSE
    /\ w' = NewResponseWriter
    /\ client' = NoResponse
    /\ UNCHANGED <<config, stub>>

Next ==
    \/ Close
    \/ NotFound
    \/ MethodNotAllowed
    \/ CatalogStart
    \/ CallListPackages
    \/ ListPackagesFails
    \/ ListPackagesSucceeds
    \/ ScanPackage
    \/ ScanPanics
    \/ CatalogRespond
    \/ TagsListStart
    \/ PackageGetAllVersionsFails
    \/ PackageGetAllVersionsSucceeds
    \/ Expire

Spec == Init /\ [][Next]_vars

-----------------------------------------------------------------------------
(* The proxy in front of a stub client: every ListPackages call for an      *)
(* identity gets the answer the table holds for it, at once.                *)

\* the identities a catalog request queries
Identities(c) == {GitHubUsers(c)[i] : i \in 1..Len(GitHubUsers(c))}

Stubs(c) == [Identities(c) -> StubAnswers]

InitStub ==
    /\ config \in Configs
    /\ stub \in Stubs(config)
    /\ Idle

\* the answer to the call in flight
StubAnswer == stub[users[idx]]
\* the record of tempPackages the range loop is at
StubRecord ==
    StubAnswer.tempPackages[Len(StubAnswer.tempPackages) - remaining + 1]

StubListPackagesFails ==
    /\ pc = "listing"
    /\ StubAnswer.result # "ok"
    /\ ListPackagesReturnsError(StubAnswer.result)

StubListPackagesSucceeds ==
    /\ pc = "listing"
    /\ StubAnswer.result = "ok"
    /\ ListPackagesReturns(Len(StubAnswer.tempPackages))

StubScanPackage ==
    /\ pc = "scan"
    /\ ScanPackageRec(StubRecord)

StubScanPanics ==
    /\ pc = "scan"
    /\ ScanPanicsOn(StubRecord)

NextStub ==
    \/ Close
    \/ CatalogStart
    \/ CallListPackages
    \/ StubListPackagesFails
    \/ StubListPackagesSucceeds
    \/ StubScanPackage
    \/ StubScanPanics
    \/ CatalogRespond

SpecStub == InitStub /\ [][NextStub]_vars

-----------------------------------------------------------------------------
(* Properties *)

CatalogDone == pc = "done" /\ handler = "Catalog"
TagsDone == pc = "done" /\ handler = "TagsList"

\* the client received a response with one JSON document as its body
Responded == client.kind = "response" /\ Len(client.body) = 1
Body == client.body[1]

IsErrorEnvelope(b) == DOMAIN b = {"errors"}
IsRepositories(b) == DOMAIN b = {"repositories"}
IsTagsBody(b) == DOMAIN b = {"name", "tags"}

\* some identity's fetch succeeded
AnySucceeded == \E i \in 1..Len(results) : results[i] = "ok"

\* the status policy of the catalog response; a body that is a repositories
\* document has no errors member, so it carries none of the accumulated errors
CatalogStatusPolicy ==
    /\ Responded
    /\ (client.status = StatusBadRequest /\ IsErrorEnvelope(Body)) <=> ~AnySucceeded
    /\ AnySucceeded =>
          /\ client.status = StatusOK
          /\ IsRepositories(Body)
          /\ Len(Body.repositories) = 0 <=> packages = <<>>

\* C1: every catalog request ends with status 400 and an error envelope
\* exactly when no identity's fetch succeeded, and with status 200 and a
\* repositories body carrying none of the accumulated errors when at least
\* one fetch succeeded.
C1_CatalogStatus == CatalogDone => CatalogStatusPolicy

\* the policy of C1 on the requests that were answered at all
C1_CatalogStatusWhenAnswered ==
    (CatalogDone /\ client.kind # "aborted") => CatalogStatusPolicy

\* every package kept has a name, an owner and an owner login
AllKeptWellFormed ==
    \A i \in 1..Len(packages) :
        /\ packages[i].Name # Nil
        /\ packages[i].Owner # Nil
        /\ Deref(packages[i].Owner).Login # Nil

\* C2: a record missing its name, its owner or its owner login is skipped:
\* the handler never crashes on it, still completes with its 200 or 400
\* response, and the record adds nothing to repositories.
C2_MalformedSkipped ==
    /\ handler = "Catalog" => client.kind # "aborted"
    /\ CatalogDone => (Responded /\ client.status \in {StatusOK, StatusBadRequest})
    /\ AllKeptWellFormed

\* C3: when the deadline passes while the catalog request is still iterating
\* identities, the client sees a deadline-exceeded failure: neither a 200
\* repositories body nor a 400 error envelope.
C3_DeadlineDiscards ==
    (CatalogDone /\ expired /\ atExpiry.iterating) =>
        /\ ~(Responded /\ client.status = StatusOK /\ IsRepositories(Body))
        /\ ~(Responded /\ client.status = StatusBadRequest /\ IsErrorEnvelope(Body))

\* the path is one of the two translatable patterns
Translatable(p) ==
    \/ p = CatalogPath
    \/ \E o \in PathParams, n \in PathParams : p = TagsPath(o, n)

\* C4: a request for a translatable path with a method other than GET is
\* forwarded to the upstream proxy: the router does not answer it itself and
\* no handler of the translation layer runs.
C4_NonGetForwarded ==
    (pc = "done" /\ Translatable(path) /\ method # "GET") =>
        /\ client = Forwarded
        /\ handler = "NotFound"
        /\ calls = <<>>

\* C5: every request is dispatched to exactly one of Catalog, TagsList and
\* the upstream proxy: GET /v2/_catalog to Catalog, GET
\* /v2/{owner}/{name}/tags/list to TagsList with those parameters, and a path
\* matching neither pattern to the upstream proxy with no origin-API call.
C5_DispatchExactlyOne ==
    pc # "idle" =>
        /\ handler \in {"Catalog", "TagsList", "NotFound"}
        /\ (method = "GET" /\ path = CatalogPath) => handler = "Catalog"
        /\ \A o \in PathParams, n \in PathParams :
              (method = "GET" /\ path = TagsPath(o, n)) =>
                  (handler = "TagsList" /\ owner = o /\ name = n)
        /\ ~Translatable(path) =>
              (handler = "NotFound" /\ client = Forwarded /\ calls = <<>>)

\* the dispatch of C5 on the requests the router does not answer itself
C5_DispatchWhenNotAnsweredByRouter ==
    (pc # "idle" /\ handler # "MethodNotAllowed") =>
        /\ handler \in {"Catalog", "TagsList", "NotFound"}
        /\ (method = "GET" /\ path = CatalogPath) => handler = "Catalog"
        /\ \A o \in PathParams, n \in PathParams :
              (method = "GET" /\ path = TagsPath(o, n)) =>
                  (handler = "TagsList" /\ owner = o /\ name = n)
        /\ ~Translatable(path) =>
              (handler = "NotFound" /\ client = Forwarded /\ calls = <<>>)

\* the catalog request was answered 200 with a repositories body
Catalog200 ==
    CatalogDone /\ Responded /\ client.status = StatusOK /\ IsRepositories(Body)

LoginOf(pack) == Deref(Deref(pack.Owner).Login)
NameOf(pack) == Deref(pack.Name)

HasSlash(str) == \E i \in 1..Len(str) : str[i] = "/"
CountSlash(str) == Cardinality({i \in 1..Len(str) : str[i] = "/"})
\* non-empty and free of '/'
Clean(str) == str # <<>> /\ ~HasSlash(str)

\* C6 as stated: in every catalog response no two strings of repositories are
\* byte-equal, whatever records the origin API returns.
C6_NoByteEqualRepositories ==
    Catalog200 =>
        \A i \in 1..Len(Body.repositories), j \in 1..Len(Body.repositories) :
            i # j => Body.repositories[i] # Body.repositories[j]

\* C6 as amended: repositories has one entry per kept package, no two kept
\* packages have the same (owner login, name) pair, and no two repository
\* strings are byte-equal when no owner login contains '/'.
C6_NoDuplicatePairs ==
    Catalog200 =>
        /\ Len(Body.repositories) = Len(packages)
        /\ \A i \in 1..Len(packages), j \in 1..Len(packages) :
              i # j => <<LoginOf(packages[i]), NameOf(packages[i])>>
                         # <<LoginOf(packages[j]), NameOf(packages[j])>>
        /\ (\A i \in 1..Len(packages) : ~HasSlash(LoginOf(packages[i]))) =>
              \A i \in 1..Len(packages), j \in 1..Len(packages) :
                  i # j => Body.repositories[i] # Body.repositories[j]

\* a package returned for a second identity as well is listed once
C6_SeenUnderTwoIdentities ==
    /\ Catalog200
    /\ reobserved
    /\ Len(Body.repositories) = 1

\* C7 as stated: every repository string of a 200 catalog response contains
\* exactly one '/' and both halves are non-empty, whatever names and logins
\* the origin API returns.
C7_ExactlyOneSlash ==
    Catalog200 =>
        \A i \in 1..Len(Body.repositories) :
            /\ CountSlash(Body.repositories[i]) = 1
            /\ Len(Split(Body.repositories[i], "/")) = 2
            /\ Split(Body.repositories[i], "/")[1] # <<>>
            /\ Split(Body.repositories[i], "/")[2] # <<>>

\* C7 as amended: every repository string of a 200 catalog response contains
\* at least one '/', with the owner login of its package before one and the
\* name after it; it contains exactly one '/' and has two non-empty halves
\* when that login and that name are non-empty and contain no '/'.
C7_OneSlashWhenClean ==
    Catalog200 =>
        /\ Len(Body.repositories) = Len(packages)
        /\ \A i \in 1..Len(Body.repositories) :
              LET repo == Body.repositories[i]
                  login == LoginOf(packages[i])
                  pname == NameOf(packages[i])
              IN  /\ CountSlash(repo) >= 1
                  /\ Len(repo) = Len(login) + 1 + Len(pname)
                  /\ repo[Len(login) + 1] = "/"
                  /\ SubSeq(repo, 1, Len(login)) = login
                  /\ SubSeq(repo, Len(login) + 2, Len(repo)) = pname
                  /\ (Clean(login) /\ Clean(pname)) =>
                        /\ CountSlash(repo) = 1
                        /\ Split(repo, "/") = <<login, pname>>

\* a 200 catalog response listing a package whose login and name are clean
\* beside one whose name is empty
C7_CleanAndEmptyNames ==
    /\ Catalog200
    /\ Body.repositories = <<<<"x", "/", "x">>, <<"x", "/">>>>

\* the identities a catalog request queries under configuration c
ExpectedIdentities(c) ==
    IF c = <<>> THEN <<<<>>>> ELSE <<<<>>>> \o Split(c, ",")

\* the calls of a catalog request, one per identity, in order
ExpectedCalls(c) ==
    [i \in 1..Len(ExpectedIdentities(c)) |-> ListPackagesCall(ExpectedIdentities(c)[i])]

\* C8: a catalog request calls ListPackages once for each element of [""]
\* (empty configuration) or [""] ++ split(c, ","), in that order, whatever
\* the earlier calls returned.
C8_CallsPerIdentity ==
    /\ handler = "Catalog" =>
          /\ Len(calls) <= Len(ExpectedCalls(config))
          /\ calls = SubSeq(ExpectedCalls(config), 1, Len(calls))
    /\ CatalogDone => calls = ExpectedCalls(config)

\* the calls of C8 on the requests that were answered at all
C8_CallsPerIdentityWhenAnswered ==
    /\ handler = "Catalog" =>
          /\ Len(calls) <= Len(ExpectedCalls(config))
          /\ calls = SubSeq(ExpectedCalls(config), 1, Len(calls))
    /\ (CatalogDone /\ client.kind # "aborted") => calls = ExpectedCalls(config)

\* the version carries container metadata
Carries(version) ==
    version.Metadata # Nil /\ Deref(version.Metadata).Container # Nil
TagsCarried(version) ==
    IF Carries(version) THEN Deref(Deref(version.Metadata).Container).Tags ELSE <<>>

\* the number of tags carried by the first k versions
RECURSIVE TagCount(_, _)
TagCount(vs, k) ==
    IF k = 0 THEN 0 ELSE TagCount(vs, k - 1) + Len(TagsCarried(vs[k]))

\* C9: a tags request whose PackageGetAllVersions call succeeds is answered
\* 200, and tags holds, version after version in origin order, the tags of
\* each version that carries container metadata, in their order, duplicates
\* kept, and nothing else.
C9_TagsAreConcatenation ==
    (TagsDone /\ results = <<"ok">>) =>
        /\ Responded
        /\ client.status = StatusOK
        /\ IsTagsBody(Body)
        /\ Len(Body.tags) = TagCount(versions, Len(versions))
        /\ \A i \in 1..Len(versions) :
              \A j \in 1..Len(TagsCarried(versions[i])) :
                  Body.tags[TagCount(versions, i - 1) + j] = TagsCarried(versions[i])[j]

\* two versions sharing a tag: the tag is listed once per version
C9_SharedTagKept ==
    /\ TagsDone
    /\ Responded
    /\ Len(versions) = 2
    /\ Body.tags = <<"latest", "v1", "latest">>

\* C10: a tags request makes exactly one PackageGetAllVersions call, for the
\* owner and name of the path; when the call fails the response is 400 with
\* the single entry {UNKNOWN, "PackageGetAllVersions: <err>"} and no name or
\* tags member.
C10_OneCallAndErrorEnvelope ==
    /\ handler = "TagsList" =>
          /\ Len(calls) = 1
          /\ calls[1].op = "PackageGetAllVersions"
          /\ calls[1].packageType = "container"
          /\ path = <<"/", "v", "2", "/">> \o calls[1].user \o <<"/">> \o calls[1].name
                       \o <<"/", "t", "a", "g", "s", "/", "l", "i", "s", "t">>
    /\ TagsDone => Len(results) = 1
    /\ (TagsDone /\ results # <<"ok">>) =>
          /\ Responded
          /\ client.status = 400
          /\ Body = [errors |-> <<[code |-> "UNKNOWN",
                                   message |-> "PackageGetAllVersions: " \o results[1]]>>]

\* a tags request whose call failed with "boom"
C10_CallFailed ==
    /\ TagsDone
    /\ results = <<"boom">>
    /\ client.status = 400

\* the catalog request was answered 400
Catalog400 == CatalogDone /\ Responded /\ client.status = StatusBadRequest

\* C11: a catalog request that ends with status 400 carries one error per
\* queried identity, duplicates counted separately, in identity order, each
\* with code UNKNOWN and message "ListPackages: " followed by the error text
\* of that identity's call; no response carries an error with another code.
C11_OneErrorPerIdentity ==
    /\ Catalog400 =>
          /\ IsErrorEnvelope(Body)
          /\ Len(Body.errors) = Len(ExpectedIdentities(config))
          /\ Len(results) = Len(Body.errors)
          /\ calls = ExpectedCalls(config)
          /\ \A i \in 1..Len(Body.errors) :
                Body.errors[i] = [code |-> "UNKNOWN",
                                  message |-> "ListPackages: " \o results[i]]
    /\ (Responded /\ IsErrorEnvelope(Body)) =>
          \A i \in 1..Len(Body.errors) : Body.errors[i].code = "UNKNOWN"

\* a 400 catalog response for the identities "" and "a" whose calls failed
\* with different errors
C11_TwoIdentitiesFailed ==
    /\ Catalog400
    /\ config = <<"a">>
    /\ Body.errors = <<[code |-> "UNKNOWN", message |-> "ListPackages: denied"],
                       [code |-> "UNKNOWN", message |-> "ListPackages: boom"]>>

\* the tags request was answered 200
Tags200 == TagsDone /\ Responded /\ client.status = StatusOK

\* C13: in every tags 200 response the name member is the owner parameter of
\* the request path, "/", and its name parameter, whatever versions the
\* origin API returned.
C13_NameFromPath ==
    Tags200 =>
        /\ IsTagsBody(Body)
        /\ \E o \in PathParams, n \in PathParams :
              /\ path = <<"/", "v", "2", "/">> \o o \o <<"/">> \o n
                           \o <<"/", "t", "a", "g", "s", "/", "l", "i", "s", "t">>
              /\ Body.name = o \o <<"/">> \o n

\* a tags 200 response for /v2/u/p/tags/list whose versions carry tags
C13_NamedFromPath ==
    /\ Tags200
    /\ path = <<"/", "v", "2", "/", "u", "/", "p",
                "/", "t", "a", "g", "s", "/", "l", "i", "s", "t">>
    /\ Body.name = <<"u", "/", "p">>
    /\ Body.tags = <<"v1", "latest">>

\* C14: every response of the translation layer (catalog 200 and 400, tags
\* 200 and 400) carries Content-Type application/json: the header is set
\* before the status line is written, so it is among the headers sent.
C14_JSONContentType ==
    handler \in {"Catalog", "TagsList"} =>
        /\ w.status # 0 => w.sentType = "application/json"
        /\ (pc # "idle" /\ w.status = 0) => w.header = "application/json"
        /\ Responded =>
              /\ client.status \in {200, 400}
              /\ client.contentType = "application/json"

\* a tags 400 response sent as application/json
C14_TagsErrorIsJSON ==
    /\ TagsDone
    /\ Responded
    /\ client.status = 400
    /\ IsErrorEnvelope(Body)
    /\ client.contentType = "application/json"

\* C15: once the deadline has passed during a catalog request, no
\* ListPackages call is started for an identity that had not been queried
\* when it passed.
C15_NoCallAfterExpiry ==
    (handler = "Catalog" /\ expired) => Len(calls) = atExpiry.calls

\* C16: within one catalog request at most one ListPackages call is in
\* flight, and the call for the next identity starts only after the call for
\* the identity before it has returned.
C16_OneCallInFlight ==
    handler = "Catalog" =>
        /\ inflight <= 1
        /\ inflight = Len(calls) - Len(results)
        /\ inflight = 1 <=> pc = "listing"
        /\ \A i \in 1..Len(calls) : calls[i].op = "ListPackages"

\* the call for the second identity is in flight after the first returned
C16_SecondCallInFlight ==
    /\ handler = "Catalog"
    /\ pc = "listing"
    /\ Len(calls) = 2
    /\ Len(results) = 1
    /\ inflight = 1

\* the records the successful fetches of a catalog request return from the
\* table st, in the order of (identity index, position in the listing)
RECURSIVE Observations(_, _)
Observations(ids, st) ==
    IF ids = <<>> THEN <<>>
    ELSE (IF st[Head(ids)].result = "ok" THEN st[Head(ids)].tempPackages ELSE <<>>)
         \o Observations(Tail(ids), st)

\* the record has a name, an owner and an owner login
WellFormed(rec) ==
    /\ rec.Name # Nil
    /\ rec.Owner # Nil
    /\ Deref(rec.Owner).Login # Nil

SamePackage(a, b) == LoginOf(a) = LoginOf(b) /\ NameOf(a) = NameOf(b)

\* obs[i] is the first observation of its package
IsFirst(obs, i) ==
    /\ WellFormed(obs[i])
    /\ \A j \in 1..(i - 1) : WellFormed(obs[j]) => ~SamePackage(obs[j], obs[i])

\* the number of packages first observed at or before position i
Rank(obs, i) == Cardinality({j \in 1..i : IsFirst(obs, j)})

\* C12: in a 200 catalog response the repositories are in first-observation
\* order: there is one entry per package, at the rank of the first (identity
\* index, position) at which a successful fetch returned it, so a package
\* precedes another exactly when its first observation does; observing it
\* again neither moves it nor adds it again.
C12_FirstObservationOrder ==
    (Catalog200 /\ stub # LiveOrigin) =>
        LET obs == Observations(ExpectedIdentities(config), stub)
        IN  /\ Len(Body.repositories) = Rank(obs, Len(obs))
            /\ \A i \in 1..Len(obs) :
                  IsFirst(obs, i) =>
                      Body.repositories[Rank(obs, i)]
                          = LoginOf(obs[i]) \o <<"/">> \o NameOf(obs[i])

\* x/x then x/x/x for the first identity, x/x/x then x/x for the second: the
\* response lists x/x, x/x/x
C12_ObservedAgainInOtherOrder ==
    /\ Catalog200
    /\ stub # LiveOrigin
    /\ config = <<"a">>
    /\ Observations(ExpectedIdentities(config), stub) =
          <<[Name |-> Ptr(<<"x">>), Owner |-> Ptr([Login |-> Ptr(<<"x">>)])],
            [Name |-> Ptr(<<"x", "/", "x">>), Owner |-> Ptr([Login |-> Ptr(<<"x">>)])],
            [Name |-> Ptr(<<"x", "/", "x">>), Owner |-> Ptr([Login |-> Ptr(<<"x">>)])],
            [Name |-> Ptr(<<"x">>), Owner |-> Ptr([Login |-> Ptr(<<"x">>)])]>>
    /\ Body.repositories = <<<<"x", "/", "x">>, <<"x", "/", "x", "/", "x">>>>

\* The Catalog handler as a function of what it is given: the identities and
\* the answers of the table st to its own calls.

\* the state of the handler's locals before the loop
CatalogLocals == [successes |-> 0, packages |-> <<>>, errors |-> <<>>, panicked |-> FALSE]

\* the range loop over tempPackages
RECURSIVE ScanAll(_, _)
ScanAll(loc, recs) ==
    IF recs = <<>> \/ loc.panicked THEN loc
    ELSE IF SkipCheck(Head(recs)) = "panic" THEN [loc EXCEPT !.panicked = TRUE]
    ELSE ScanAll([loc EXCEPT !.packages = AddPackage(loc.packages, Head(recs))],
                 Tail(recs))

\* the range loop over users
RECURSIVE FanOut(_, _, _)
FanOut(loc, ids, st) ==
    IF ids = <<>> \/ loc.panicked THEN loc
    ELSE LET answer == st[Head(ids)]
         IN  IF answer.result # "ok"
             THEN FanOut([loc EXCEPT !.errors =
                             Append(loc.errors,
                                    apiError(ERROR_UNKNOWN,
                                             ListPackagesMessage(answer.result)))],
                         Tail(ids), st)
             ELSE FanOut(ScanAll([loc EXCEPT !.successes = loc.successes + 1],
                                 answer.tempPackages),
                         Tail(ids), st)

\* what the client receives for a catalog request over the identities ids
CatalogOutcome(ids, st) ==
    LET loc == FanOut(CatalogLocals, ids, st)
    IN  IF loc.panicked THEN Aborted
        ELSE Finish(CatalogResponse(loc.successes, loc.errors, loc.packages,
                                    SetContentType(NewResponseWriter, ContentTypeJSON)),
                    FALSE)

Repeats(ids, st, i) ==
    \E j \in 1..(i - 1) : ids[j] = ids[i] \/ st[ids[j]] = st[ids[i]]

\* the identities without the later repetitions
RECURSIVE WithoutRepetitions(_, _, _)
WithoutRepetitions(ids, st, k) ==
    IF k = 0 THEN <<>>
    ELSE WithoutRepetitions(ids, st, k - 1)
         \o (IF Repeats(ids, st, k) THEN <<>> ELSE <<ids[k]>>)

\* some identity of the request repeats an earlier one
HasRepetition(ids, st) == \E i \in 1..Len(ids) : Repeats(ids, st, i)

\* C18: a repeated identity is fetched again but does not change the
\* catalog: with a client answering each identity the same way every time,
\* the request makes one call per identity, repetitions included, and gets
\* the status and the repositories it would get for the identities with the
\* later repetitions removed.
C18_RepetitionsChangeNothing ==
    (CatalogDone /\ stub # LiveOrigin) =>
        LET ids == GitHubUsers(config)
            once == CatalogOutcome(WithoutRepetitions(ids, stub, Len(ids)), stub)
        IN  /\ client.kind = once.kind
            /\ client.status = once.status
            /\ (Responded /\ client.status = 200) =>
                  Body.repositories = once.body[1].repositories
            /\ Responded => Len(calls) = Len(ids)

\* GITHUB_USERS="," queries the authenticated identity three times; its two
\* packages are listed once each
C18_SameIdentityThrice ==
    /\ Catalog200
    /\ stub # LiveOrigin
    /\ config = <<",">>
    /\ HasRepetition(GitHubUsers(config), stub)
    /\ Len(calls) = 3
    /\ Len(Body.repositories) = 2

====
